---- MODULE Spec2Model ----
(***************************************************************************)
(* Model of src/app.py: the key codec (parse_key / format_key), the CSV    *)
(* store (read_rows / write_rows), the statistics aggregator (build_stats),*)
(* the probability model (normalize_probs), the weighted sampler           *)
(* (sample_without_replacement), the prediction engine                     *)
(* (probability_based_prediction) and the /upload and /predict handlers.   *)
(*                                                                         *)
(* Strings are sequences of one-character strings, so that split, strip,   *)
(* str and int are computed character by character.  Floats are exact      *)
(* rationals <<numerator, denominator>>.  random.choices / randrange /     *)
(* random.choice are nondeterministic choices over the outcomes they can   *)
(* produce (an index of zero weight is never drawn by random.choices).     *)
(* The number and star domains of the code (1..50 and 1..12) are scaled to *)
(* 1..NumDomain and 1..StarDomain; the number of picks (5 and 2) is kept.  *)
(***************************************************************************)
EXTENDS Integers, Sequences, FiniteSets, TLC

VARIABLES
  pc,                 \* position of the running call or handler
  rows,               \* the record collection handed to build_stats / the engine
  si,                 \* build_stats: number of records already processed
  num_freq, star_freq, co,            \* build_stats locals
  base_num_probs, base_star_probs,    \* engine locals
  picked, candidates, weights, stars, \* engine locals
  sw_domain, sw_weights, sw_k,        \* sample_without_replacement: the caller's arguments
  available, current_weights, chosen, iter,  \* sample_without_replacement locals
  counts, domain_size, alpha, result, \* normalize_probs: arguments and outcome
  store,              \* the CSV file at CSV_PATH
  shown,              \* the rows the store showed (read_rows) when it was uploaded
  preds,              \* the <<nums, stars>> returned by the /predict calls since
  status              \* HTTP status of the last handler

statsVars  == <<rows, si, num_freq, star_freq, co>>
engineVars == <<base_num_probs, base_star_probs, picked, candidates, weights, stars>>
sampleVars == <<sw_domain, sw_weights, sw_k, available, current_weights, chosen, iter>>
normVars   == <<counts, domain_size, alpha, result>>
appVars    == <<store, shown, preds, status>>
vars == <<pc, statsVars, engineVars, sampleVars, normVars, appVars>>

----------------------------------------------------------------------------
(* Bounds of the model *)

NumDomain == 6      \* stands for the number domain range(1, 51)
StarDomain == 3     \* stands for the star domain range(1, 13)
MaxRows == 2        \* longest record collection handed to build_stats
EngineRows == 1     \* longest record collection handed to the prediction engine
MaxPredicts == 2    \* /predict calls after an upload
MaxCount == 2       \* largest count in a frequency table handed to normalize_probs
MaxSize == 3        \* largest domain_size handed to normalize_probs
MaxItems == 3       \* longest domain handed to sample_without_replacement
MaxK == 4           \* largest k handed to sample_without_replacement

(* Program constants *)

NumPicks == 5       \* while len(picked) < 5
StarPicks == 2      \* sample_without_replacement(star_domain, ..., 2)
W_actual == 2       \* num_freq[n] += 2
W_pred == 1         \* num_freq[n] += 1
BetaNum == 1        \* beta = 0.05 = BetaNum / BetaDen
BetaDen == 20

----------------------------------------------------------------------------
(* Characters, str and int *)

Digits == <<"0", "1", "2", "3", "4", "5", "6", "7", "8", "9">>

IsDigit(c) == \E i \in 1..10 : Digits[i] = c

DigitVal(c) == (CHOOSE i \in 1..10 : Digits[i] = c) - 1

RECURSIVE str(_)
str(n) ==
  IF n < 0 THEN <<"-">> \o str(-n)
  ELSE IF n < 10 THEN <<Digits[n + 1]>>
  ELSE str(n \div 10) \o <<Digits[(n % 10) + 1]>>

RECURSIVE DigitsValue(_)
DigitsValue(s) ==
  IF s = <<>> THEN 0
  ELSE 10 * DigitsValue(SubSeq(s, 1, Len(s) - 1)) + DigitVal(s[Len(s)])

\* int(tok): [ok |-> FALSE] stands for the ValueError
int(tok) ==
  LET signed == tok # <<>> /\ tok[1] \in {"+", "-"}
      body == IF signed THEN Tail(tok) ELSE tok
  IN IF body = <<>> \/ (\E i \in 1..Len(body) : ~IsDigit(body[i]))
     THEN [ok |-> FALSE, val |-> 0]
     ELSE [ok |-> TRUE,
           val |-> IF signed /\ tok[1] = "-" THEN -DigitsValue(body) ELSE DigitsValue(body)]

NotSpace(c) == c # " "

NotEmpty(t) == t # <<>>

RECURSIVE strip(_)
strip(s) ==
  IF s = <<>> THEN s
  ELSE IF s[1] = " " THEN strip(Tail(s))
  ELSE IF s[Len(s)] = " " THEN strip(SubSeq(s, 1, Len(s) - 1))
  ELSE s

Contains(s, c) == \E i \in 1..Len(s) : s[i] = c

FirstIndex(s, c) == CHOOSE i \in 1..Len(s) : s[i] = c /\ \A j \in 1..(i - 1) : s[j] # c

RECURSIVE split(_, _)
split(s, sep) ==
  IF ~Contains(s, sep) THEN <<s>>
  ELSE LET i == FirstIndex(s, sep)
       IN <<SubSeq(s, 1, i - 1)>> \o split(SubSeq(s, i + 1, Len(s)), sep)

RECURSIVE join(_, _)
join(parts, sep) ==
  IF parts = <<>> THEN <<>>
  ELSE IF Len(parts) = 1 THEN parts[1]
  ELSE parts[1] \o <<sep>> \o join(Tail(parts), sep)

----------------------------------------------------------------------------
(* parse_key and format_key *)

NoPair == [nums |-> <<>>, stars |-> <<>>]

\* [int(x) for x in part.replace(" ", "").split(";") if x]
IntList(part) ==
  LET toks == SelectSeq(split(SelectSeq(part, NotSpace), ";"), NotEmpty)
  IN [j \in 1..Len(toks) |-> int(toks[j])]

AllOk(l) == \A j \in 1..Len(l) : l[j].ok

Vals(l) == [j \in 1..Len(l) |-> l[j].val]

parse_key(key) ==
  IF key = <<>> THEN NoPair
  ELSE LET k == strip(key)
       IN IF ~Contains(k, "/") THEN NoPair
          ELSE LET i == FirstIndex(k, "/")
                   nl == IntList(SubSeq(k, 1, i - 1))
                   sl == IntList(SubSeq(k, i + 1, Len(k)))
               IN IF AllOk(nl) /\ AllOk(sl)
                  THEN [nums |-> Vals(nl), stars |-> Vals(sl)]
                  ELSE NoPair

StrAll(xs) == [j \in 1..Len(xs) |-> str(xs[j])]

format_key(ns, ss) == join(StrAll(ns), ";") \o <<"/">> \o join(StrAll(ss), ";")

----------------------------------------------------------------------------
(* build_stats *)

ZeroStats ==
  [num_freq |-> [i \in 1..NumDomain |-> 0],
   star_freq |-> [i \in 1..StarDomain |-> 0],
   co |-> [i \in 1..NumDomain |-> [j \in 1..NumDomain |-> 0]]]

\* the bug "= w" instead of "+= w"
RECURSIVE AddFreqAssign(_, _, _, _)
AddFreqAssign(freq, vals, w, hi) ==
  IF vals = <<>> THEN freq
  ELSE LET n == Head(vals)
       IN AddFreqAssign(IF 1 <= n /\ n <= hi THEN [freq EXCEPT ![n] = w] ELSE freq,
                        Tail(vals), w, hi)

\* for n in vals: if 1 <= n <= hi: freq[n] += w
RECURSIVE AddFreq(_, _, _, _)
AddFreq(freq, vals, w, hi) ==
  IF vals = <<>> THEN freq
  ELSE LET n == Head(vals)
       IN AddFreq(IF 1 <= n /\ n <= hi THEN [freq EXCEPT ![n] = @ + w] ELSE freq,
                  Tail(vals), w, hi)

InNumDomain(n) == 1 <= n /\ n <= NumDomain

\* the bug of counting the predicted numbers as well
CoSourceBoth(a_nums, p_nums) == SelectSeq(a_nums \o p_nums, InNumDomain)

\* a_nums = [n for n in a_nums if 1 <= n <= 50]
CoSource(a_nums, p_nums) == SelectSeq(a_nums, InNumDomain)

\* the bug of leaving the guard x != y out
CoBumpNoGuard(c, x, y) == [c EXCEPT ![x][y] = @ + 1, ![y][x] = @ + 1]

\* if x != y: co[x][y] += 1; co[y][x] += 1
CoBump(c, x, y) == IF x # y THEN [c EXCEPT ![x][y] = @ + 1, ![y][x] = @ + 1] ELSE c

\* for i in range(len(a)): for j in range(i + 1, len(a)): ...
RECURSIVE CoPairs(_, _, _, _)
CoPairs(c, a, i, j) ==
  IF i > Len(a) THEN c
  ELSE IF j > Len(a) THEN CoPairs(c, a, i + 1, i + 2)
  ELSE CoPairs(CoBump(c, a[i], a[j]), a, i, j + 1)

\* one iteration of "for r in rows"
StatsAdd(st, r) ==
  LET a == parse_key(r.Actual)
      p == parse_key(r.Prediction)
      nf == AddFreq(AddFreq(st.num_freq, a.nums, W_actual, NumDomain),
                    p.nums, W_pred, NumDomain)
      sf == AddFreq(AddFreq(st.star_freq, a.stars, W_actual, StarDomain),
                    p.stars, W_pred, StarDomain)
  IN [num_freq |-> nf, star_freq |-> sf,
      co |-> CoPairs(st.co, CoSource(a.nums, p.nums), 1, 2)]

RECURSIVE StatsFold(_, _)
StatsFold(st, rs) == IF rs = <<>> THEN st ELSE StatsFold(StatsAdd(st, Head(rs)), Tail(rs))

build_stats(rs) == StatsFold(ZeroStats, rs)

----------------------------------------------------------------------------
(* Rationals <<numerator, denominator>>, denominator > 0 *)

RPos(x) == x[1] > 0

RLe0(x) == x[1] <= 0

REq(x, y) == x[1] * y[2] = y[1] * x[2]

RLess(x, y) == x[1] * y[2] < y[1] * x[2]

RAdd(x, y) == IF x[2] = y[2] THEN <<x[1] + y[1], x[2]>>
              ELSE <<x[1] * y[2] + y[1] * x[2], x[2] * y[2]>>

RECURSIVE RSum(_)
RSum(ws) == IF ws = <<>> THEN <<0, 1>> ELSE RAdd(Head(ws), RSum(Tail(ws)))

RECURSIVE SumSeq(_)
SumSeq(xs) == IF xs = <<>> THEN 0 ELSE Head(xs) + SumSeq(Tail(xs))

----------------------------------------------------------------------------
(* normalize_probs; cnts is a dict with keys 1..Len(cnts) *)

Get(cnts, i) == IF i \in DOMAIN cnts THEN cnts[i] ELSE 0

\* the bug of leaving the smoothing term out of the numerator
normalize_probs_unsmoothed(cnts, size, al) ==
  LET total == <<SumSeq(cnts) * al[2] + al[1] * size, al[2]>>
  IN IF RLe0(total)
     THEN IF size = 0 THEN [kind |-> "ZeroDivisionError", probs |-> <<>>]
          ELSE [kind |-> "list", probs |-> [i \in 1..size |-> <<1, size>>]]
     ELSE [kind |-> "list",
           probs |-> [i \in 1..size |-> <<Get(cnts, i) * al[2], total[1]>>]]

\* total = sum(counts.values()) + alpha * domain_size
\* if total <= 0: return [1.0 / domain_size] * domain_size
\* return [(counts.get(i, 0) + alpha) / total for i in range(1, domain_size + 1)]
normalize_probs(cnts, size, al) ==
  LET total == <<SumSeq(cnts) * al[2] + al[1] * size, al[2]>>
  IN IF RLe0(total)
     THEN IF size = 0 THEN [kind |-> "ZeroDivisionError", probs |-> <<>>]
          ELSE [kind |-> "list", probs |-> [i \in 1..size |-> <<1, size>>]]
     ELSE [kind |-> "list",
           probs |-> [i \in 1..size |-> <<Get(cnts, i) * al[2] + al[1], total[1]>>]]

----------------------------------------------------------------------------
(* random and list helpers; sample_without_replacement *)

\* random.choices(range(len(ws)), weights=ws, k=1)[0]: an index of positive weight
\* (0-based in the code, 1-based here)
choices(ws) == {i \in 1..Len(ws) : RPos(ws[i])}

\* random.randrange(n)
randrange(n) == 1..n

\* the bug of reading the item without removing it from the pool
RemoveAtKeep(l, i) == l

\* l.pop(i): the list without its i-th item
RemoveAt(l, i) == SubSeq(l, 1, i - 1) \o SubSeq(l, i + 1, Len(l))

\* if sum(current_weights) <= 0: idx = random.randrange(len(available))
\* else: idx = random.choices(range(len(available)), weights=current_weights, k=1)[0]
SampleIndexes(avail, ws) == IF RLe0(RSum(ws)) THEN randrange(Len(avail)) ELSE choices(ws)

----------------------------------------------------------------------------
(* probability_based_prediction: the pieces of its number loop *)

AlphaDefault == <<1, 1>>

\* list(range(1, n + 1))
RangeList(n) == [i \in 1..n |-> i]

\* l.remove(v): the list without the first occurrence of v
RemoveValue(l, v) == RemoveAt(l, FirstIndex(l, v))

\* the bug of leaving the result in pick order
sortedNot(l) == l

sorted(l) == SortSeq(l, <)

\* the bug of summing over the last pick only
BonusSumLastOnly(cooc, c, pk) == cooc[c][pk[Len(pk)]]

\* sum(co[c][p] for p in picked)
BonusSum(cooc, c, pk) == SumSeq([j \in 1..Len(pk) |-> cooc[c][pk[j]]])

\* max(x, 0.0)
RMax0(x) == IF x[1] < 0 THEN <<0, 1>> ELSE x

\* base = base_num_probs[c - 1]; bonus = sum(...) * beta; max(base + bonus, 0.0)
EffectiveWeight(cooc, base, c, pk) ==
  RMax0(RAdd(base[c], <<BonusSum(cooc, c, pk) * BetaNum, BetaDen>>))

\* if sum(weights) <= 0: random.choice(candidates)
\* else: random.choices(candidates, weights=weights, k=1)[0]
NextPickIndexes(cands, ws) == IF RLe0(RSum(ws)) THEN 1..Len(cands) ELSE choices(ws)

----------------------------------------------------------------------------
(* probability_based_prediction as the set of results a call can return *)

RECURSIVE NumberRuns(_, _, _, _)
NumberRuns(cooc, base, pk, cands) ==
  IF Len(pk) < NumPicks /\ cands # <<>>
  THEN LET ws == [i \in 1..Len(cands) |-> EffectiveWeight(cooc, base, cands[i], pk)]
       IN UNION {NumberRuns(cooc, base, Append(pk, cands[i]), RemoveValue(cands, cands[i])) :
                   i \in NextPickIndexes(cands, ws)}
  ELSE {sorted(pk)}

RECURSIVE SampleRuns(_, _, _, _, _)
SampleRuns(avail, ws, ch, it, n) ==
  IF it < n /\ avail # <<>>
  THEN UNION {SampleRuns(RemoveAt(avail, i), RemoveAt(ws, i), Append(ch, avail[i]), it + 1, n) :
                i \in SampleIndexes(avail, ws)}
  ELSE {ch}

sample_without_replacement(dom, ws, n) == SampleRuns(dom, ws, <<>>, 0, n)

probability_based_prediction(rs) ==
  LET st == build_stats(rs)
      base_n == normalize_probs(st.num_freq, NumDomain, AlphaDefault).probs
      base_s == normalize_probs(st.star_freq, StarDomain, AlphaDefault).probs
      cands == RangeList(NumDomain)
      numbers == UNION {NumberRuns(st.co, base_n, <<cands[i]>>, RemoveValue(cands, cands[i])) :
                          i \in choices(base_n)}
      starsets == {sorted(ch) : ch \in sample_without_replacement(RangeList(StarDomain), base_s, StarPicks)}
  IN numbers \X starsets

----------------------------------------------------------------------------
(* The CSV store: a file is a sequence of lines, a line a sequence of cells; the
   first line is the header.  csv.reader / csv.writer and the Sniffer are taken to
   carry every cell through unchanged, which they do for cells without quote
   characters: a cell such as a;'b';c makes the Sniffer take ";" for the delimiter
   of the file write_rows wrote, a loss on top of the ones modelled here. *)

Lower(c) ==
  CASE c = "D" -> "d" [] c = "A" -> "a" [] c = "T" -> "t" [] c = "E" -> "e"
    [] c = "P" -> "p" [] c = "N" -> "n" [] c = "W" -> "w" [] OTHER -> c

NotBOM(c) == c # "BOM"

IsSubstring(pat, t) ==
  \E i \in 0..(Len(t) - Len(pat)) : SubSeq(t, i + 1, i + Len(pat)) = pat

HDate == <<"D", "a", "t", "e">>
HActual == <<"A", "c", "t", "u", "a", "l">>
HPrediction == <<"P", "r", "e", "d", "i", "c", "t", "i", "o", "n">>
HPredictiom == <<"P", "r", "e", "d", "i", "c", "t", "i", "o", "m">>

_normalize_header(name) ==
  LET stripped == strip(name)
      n == SelectSeq([i \in 1..Len(stripped) |-> Lower(stripped[i])], NotBOM)
  IN IF n = <<"d", "a", "t", "e">> THEN HDate
     ELSE IF n \in {<<"a", "c", "t", "u", "a", "l">>,
                    <<"w", "i", "n", "n", "i", "n", "g">>,
                    <<"w", "i", "n", "n", "i", "n", "g", "n", "u", "m", "b", "e", "r", "s">>}
          THEN HActual
     ELSE IF IsSubstring(<<"p", "r", "e", "d", "i", "c", "t">>, n) THEN HPrediction
     ELSE name

\* idx = {h: i for i, h in enumerate(headers)}; idx.get(h): the last column named h
\* (0-based), or None
IdxGet(headers, h) ==
  IF \E i \in 1..Len(headers) : headers[i] = h
  THEN [none |-> FALSE,
        i |-> (CHOOSE i \in 1..Len(headers) :
                 headers[i] = h /\ \A j \in (i + 1)..Len(headers) : headers[j] # h) - 1]
  ELSE [none |-> TRUE, i |-> 0]

\* a or b, for a and b an index or None: None and 0 are both falsy
Or(a, b) == IF a.none \/ a.i = 0 THEN b ELSE a

\* row[i].strip() if (i is not None and i < len(row)) else ""
Cell(line, ix) == IF ~ix.none /\ ix.i < Len(line) THEN strip(line[ix.i + 1]) ELSE <<>>

\* any(cell.strip() for cell in row)
AnyCell(line) == \E j \in 1..Len(line) : strip(line[j]) # <<>>

Row(d, a, p) == [Date |-> d, Actual |-> a, Prediction |-> p]

RECURSIVE ReadLines(_, _, _, _)
ReadLines(ls, date_i, actual_i, pred_i) ==
  IF ls = <<>> THEN <<>>
  ELSE LET line == Head(ls)
           rest == ReadLines(Tail(ls), date_i, actual_i, pred_i)
       IN IF ~AnyCell(line) THEN rest
          ELSE <<Row(Cell(line, date_i), Cell(line, actual_i), Cell(line, pred_i))>> \o rest

read_rows(file) ==
  IF ~file.exists THEN <<>>
  ELSE IF file.lines = <<>> THEN <<>>
  ELSE LET raw_headers == file.lines[1]
           headers == [i \in 1..Len(raw_headers) |-> _normalize_header(raw_headers[i])]
           date_i == IdxGet(headers, HDate)
           actual_i == IdxGet(headers, HActual)
           pred_i == Or(IdxGet(headers, HPrediction), IdxGet(headers, HPredictiom))
       IN ReadLines(Tail(file.lines), date_i, actual_i, pred_i)

write_rows(rs) ==
  [exists |-> TRUE,
   lines |-> <<<<HDate, HActual, HPrediction>>>>
             \o [i \in 1..Len(rs) |-> <<rs[i].Date, rs[i].Actual, rs[i].Prediction>>]]

----------------------------------------------------------------------------
(* Sample keys and records *)

D1 == <<"d", "1">>
D2 == <<"d", "2">>

KA == format_key(<<1, 2, 3, 4, 5>>, <<1, 2>>)
KB == format_key(<<2, 3, 4, 5, 6>>, <<2, 3>>)
KC == format_key(<<1, 2, 4, 5, 6>>, <<1, 3>>)
\* "1 ; 2;;3;4;6 / +1; 3": spaces, an empty token, a sign
KSpaces == <<"1", " ", ";", " ", "2", ";", ";", "3", ";", "4", ";", "6", " ", "/", " ",
             "+", "1", ";", " ", "3">>
\* "1;1;2;3;4/2;2": duplicated values
KDup == <<"1", ";", "1", ";", "2", ";", "3", ";", "4", "/", "2", ";", "2">>
\* "0;2;3;4;99/1;-1": values outside the domain
KRange == <<"0", ";", "2", ";", "3", ";", "4", ";", "9", "9", "/", "1", ";", "-", "1">>
\* "1;2;3/1": wrong number of values
KShort == <<"1", ";", "2", ";", "3", "/", "1">>
\* "1;2;x;4;5/1;2": a token that is no integer
KJunk == <<"1", ";", "2", ";", "x", ";", "4", ";", "5", "/", "1", ";", "2">>
\* "1;2;3;4;5": no slash
KNoSlash == <<"1", ";", "2", ";", "3", ";", "4", ";", "5">>

Records ==
  { Row(D1, KA, <<>>), Row(D2, KB, KA), Row(D1, <<>>, KC), Row(D2, KSpaces, <<>>),
    Row(D1, KDup, KB), Row(D2, KRange, KShort), Row(D1, KJunk, KNoSlash),
    Row(<<>>, KA, KRange) }

SeqsUpTo(S, n) == UNION {[1..m -> S] : m \in 0..n}

----------------------------------------------------------------------------
(* Defaults of the variables a specification does not use *)

StatsIdle ==
  /\ rows = <<>> /\ si = 0
  /\ num_freq = ZeroStats.num_freq /\ star_freq = ZeroStats.star_freq /\ co = ZeroStats.co

EngineIdle ==
  /\ base_num_probs = <<>> /\ base_star_probs = <<>>
  /\ picked = <<>> /\ candidates = <<>> /\ weights = <<>> /\ stars = <<>>

SampleIdle ==
  /\ sw_domain = <<>> /\ sw_weights = <<>> /\ sw_k = 0
  /\ available = <<>> /\ current_weights = <<>> /\ chosen = <<>> /\ iter = 0

NormIdle ==
  /\ counts = <<>> /\ domain_size = 0 /\ alpha = <<1, 1>>
  /\ result = [kind |-> "none", probs |-> <<>>]

AppIdle ==
  /\ store = [exists |-> FALSE, lines |-> <<>>]
  /\ shown = <<>> /\ preds = <<>> /\ status = 0

----------------------------------------------------------------------------
(* build_stats run record by record *)

StatsInit ==
  /\ pc = "stats"
  /\ rows \in SeqsUpTo(Records, MaxRows)
  /\ si = 0
  /\ num_freq = ZeroStats.num_freq /\ star_freq = ZeroStats.star_freq /\ co = ZeroStats.co
  /\ EngineIdle /\ SampleIdle /\ NormIdle /\ AppIdle

StatsStep ==
  /\ pc = "stats"
  /\ si < Len(rows)
  /\ LET st == StatsAdd([num_freq |-> num_freq, star_freq |-> star_freq, co |-> co],
                        rows[si + 1])
     IN /\ num_freq' = st.num_freq
        /\ star_freq' = st.star_freq
        /\ co' = st.co
  /\ si' = si + 1
  /\ UNCHANGED <<pc, rows, engineVars, sampleVars, normVars, appVars>>

StatsReturn ==
  /\ pc = "stats"
  /\ si = Len(rows)
  /\ pc' = "stats_returned"
  /\ UNCHANGED <<statsVars, engineVars, sampleVars, normVars, appVars>>

StatsNext == StatsStep \/ StatsReturn

SpecStats == StatsInit /\ [][StatsNext]_vars

----------------------------------------------------------------------------
(* Claims about build_stats, checked under SpecStats *)

ListHas(l, n) == \E i \in 1..Len(l) : l[i] = n

Distinct(l) == \A i, j \in 1..Len(l) : i # j => l[i] # l[j]

WithinRange(l, hi) == \A i \in 1..Len(l) : 1 <= l[i] /\ l[i] <= hi

WellFormed(p) ==
  /\ Len(p.nums) = 5 /\ Distinct(p.nums) /\ WithinRange(p.nums, NumDomain)
  /\ Len(p.stars) = 2 /\ Distinct(p.stars) /\ WithinRange(p.stars, StarDomain)

\* a key that is absent, or decodes to a well-formed pair
KeyOk(key) == key = <<>> \/ WellFormed(parse_key(key))

AllWellFormed(rs) == \A i \in 1..Len(rs) : KeyOk(rs[i].Actual) /\ KeyOk(rs[i].Prediction)

ActualNumCount(rs, n) ==
  Cardinality({i \in 1..Len(rs) : ListHas(parse_key(rs[i].Actual).nums, n)})

PredNumCount(rs, n) ==
  Cardinality({i \in 1..Len(rs) : ListHas(parse_key(rs[i].Prediction).nums, n)})

ActualStarCount(rs, s) ==
  Cardinality({i \in 1..Len(rs) : ListHas(parse_key(rs[i].Actual).stars, s)})

PredStarCount(rs, s) ==
  Cardinality({i \in 1..Len(rs) : ListHas(parse_key(rs[i].Prediction).stars, s)})

\* C2: for a collection of well-formed records build_stats returns tables with an
\* entry for every domain value, num_freq[n] = 2 * (records whose actual holds n) +
\* 1 * (records whose predicted holds n), likewise star_freq; for the empty
\* collection every frequency and every co-occurrence entry is 0.
C2_WeightedFrequencies ==
  (pc = "stats_returned" /\ AllWellFormed(rows)) =>
    /\ DOMAIN num_freq = 1..NumDomain
    /\ DOMAIN star_freq = 1..StarDomain
    /\ \A n \in 1..NumDomain :
         num_freq[n] = 2 * ActualNumCount(rows, n) + 1 * PredNumCount(rows, n)
    /\ \A s \in 1..StarDomain :
         star_freq[s] = 2 * ActualStarCount(rows, s) + 1 * PredStarCount(rows, s)
    /\ (rows = <<>> =>
          /\ \A n \in 1..NumDomain : num_freq[n] = 0
          /\ \A s \in 1..StarDomain : star_freq[s] = 0
          /\ \A a, b \in 1..NumDomain : co[a][b] = 0)

\* two well-formed records that share a number in their actuals, one of them also
\* in a predicted pair
C2_Witness ==
  /\ pc = "stats_returned" /\ Len(rows) = 2 /\ AllWellFormed(rows)
  /\ \E n \in 1..NumDomain : num_freq[n] = 5

\* C3: after any sequence of records (well-formed or not) the co-occurrence matrix
\* is symmetric, its entries are non-negative integers and its diagonal is zero.
C3_CoSymmetricZeroDiagonal ==
  \A a, b \in 1..NumDomain :
    /\ co[a][b] = co[b][a]
    /\ co[a][b] \in Nat
    /\ co[a][a] = 0

\* a processed record whose actual repeats a number, with pairs counted
C3_Witness ==
  /\ pc = "stats_returned"
  /\ \E i \in 1..Len(rows) : ~Distinct(parse_key(rows[i].Actual).nums)
  /\ \E a, b \in 1..NumDomain : co[a][b] > 1

WithPrediction(rs, key) == [i \in 1..Len(rs) |-> [rs[i] EXCEPT !.Prediction = key]]

\* C4: predicted pairs do not contribute to co-occurrence: the matrix is the one
\* of the same collection with every predicted pair removed, or replaced by any
\* other predicted pair.
C4_CoIgnoresPredicted ==
  pc = "stats_returned" =>
    \A key \in {<<>>, KA, KB, KC, KDup, KShort} :
      co = build_stats(WithPrediction(rows, key)).co

\* a record with a predicted pair that did change the frequencies
C4_Witness ==
  /\ pc = "stats_returned"
  /\ \E i \in 1..Len(rows) : Len(parse_key(rows[i].Prediction).nums) >= 2
  /\ num_freq # build_stats(WithPrediction(rows, <<>>)).num_freq
  /\ \E a, b \in 1..NumDomain : co[a][b] > 0

\* a decoded pair that violates the domain is dropped, key by key
Sanitized(rs) ==
  [i \in 1..Len(rs) |->
     [Date |-> rs[i].Date,
      Actual |-> IF KeyOk(rs[i].Actual) THEN rs[i].Actual ELSE <<>>,
      Prediction |-> IF KeyOk(rs[i].Prediction) THEN rs[i].Prediction ELSE <<>>]]

\* C5: a decoded pair that violates the domain (wrong number of values, a
\* duplicated value, a value out of range) is discarded as a whole pair: it adds
\* nothing to num_freq, star_freq or the co-occurrence matrix.
C5_ViolatingPairDiscarded ==
  pc = "stats_returned" =>
    LET st == build_stats(Sanitized(rows))
    IN num_freq = st.num_freq /\ star_freq = st.star_freq /\ co = st.co

----------------------------------------------------------------------------
(* normalize_probs applied to a frequency table, a domain size and an alpha *)

Alphas == {<<-1, 1>>, <<0, 1>>, <<1, 2>>, <<1, 1>>, <<2, 1>>}

NormInit ==
  /\ pc = "norm"
  /\ counts \in UNION {[1..m -> 0..MaxCount] : m \in 0..MaxSize}
  /\ domain_size \in -1..MaxSize
  /\ alpha \in Alphas
  /\ result = [kind |-> "none", probs |-> <<>>]
  /\ StatsIdle /\ EngineIdle /\ SampleIdle /\ AppIdle

Normalize ==
  /\ pc = "norm"
  /\ result' = normalize_probs(counts, domain_size, alpha)
  /\ pc' = "norm_returned"
  /\ UNCHANGED <<counts, domain_size, alpha, statsVars, engineVars, sampleVars, appVars>>

NormNext == Normalize

SpecNorm == NormInit /\ [][NormNext]_vars

\* C6: a call with alpha <= 0 or a non-positive domain size ends in a
\* configuration error and never returns a weight vector.
C6_InvalidConfigRejected ==
  (pc = "norm_returned" /\ (alpha[1] <= 0 \/ domain_size <= 0)) =>
    result.kind = "ConfigurationError"

\* C7: for non-negative counts over 1..domain_size (domain_size >= 1) and alpha > 0
\* normalize_probs returns exactly domain_size weights, each strictly positive,
\* weight(i) = (count(i) + alpha) / (sum(count) + alpha * domain_size), summing to
\* 1; with all counts 0 every weight is 1 / domain_size.
C7_SmoothedWeights ==
  (/\ pc = "norm_returned"
   /\ domain_size >= 1 /\ DOMAIN counts = 1..domain_size /\ alpha[1] > 0) =>
    /\ result.kind = "list"
    /\ Len(result.probs) = domain_size
    /\ \A i \in 1..domain_size :
         LET w == result.probs[i]
         IN /\ w[1] > 0 /\ w[2] > 0
            \* w = (count + a/d) / (sum + (a/d) * size), cross-multiplied
            /\ w[1] * (SumSeq(counts) * alpha[2] + alpha[1] * domain_size)
                 = w[2] * (counts[i] * alpha[2] + alpha[1])
            /\ (SumSeq(counts) = 0 => w[1] * domain_size = w[2])
    /\ LET total == RSum(result.probs) IN total[1] = total[2]

\* a table with unequal counts and a fractional alpha
C7_Witness ==
  /\ pc = "norm_returned"
  /\ domain_size = 3 /\ DOMAIN counts = 1..3 /\ alpha = <<1, 2>>
  /\ counts[1] = 0 /\ counts[2] = 2
  /\ Len(result.probs) = 3
  /\ RLess(result.probs[1], result.probs[2])

----------------------------------------------------------------------------
(* sample_without_replacement, one loop iteration per step *)

WeightValues == {<<0, 1>>, <<1, 1>>, <<2, 1>>}

Ascending(m) == [i \in 1..m |-> i]

Descending(m) == [i \in 1..m |-> m + 1 - i]

SampleInit ==
  /\ pc = "sample_call"
  /\ \E m \in 0..MaxItems :
       /\ sw_domain \in {Ascending(m), Descending(m)}
       /\ sw_weights \in [1..m -> WeightValues]
  /\ sw_k \in 0..MaxK
  /\ available = <<>> /\ current_weights = <<>> /\ chosen = <<>> /\ iter = 0
  /\ StatsIdle /\ EngineIdle /\ NormIdle /\ AppIdle

\* chosen = []; available = domain[:]; current_weights = weights[:]
SampleEnter ==
  /\ pc = "sample_call"
  /\ chosen' = <<>>
  /\ available' = sw_domain
  /\ current_weights' = sw_weights
  /\ iter' = 0
  /\ pc' = "sample_loop"
  /\ UNCHANGED <<sw_domain, sw_weights, sw_k, statsVars, engineVars, normVars, appVars>>

\* one iteration of "for _ in range(k)" that does not break
SampleStep ==
  /\ pc = "sample_loop"
  /\ iter < sw_k
  /\ available # <<>>
  /\ \E idx \in SampleIndexes(available, current_weights) :
       /\ chosen' = Append(chosen, available[idx])
       /\ available' = RemoveAt(available, idx)
       /\ current_weights' = RemoveAt(current_weights, idx)
  /\ iter' = iter + 1
  /\ UNCHANGED <<pc, sw_domain, sw_weights, sw_k, statsVars, engineVars, normVars, appVars>>

\* the loop ends (range exhausted, or break on an empty pool): return chosen
SampleReturn ==
  /\ pc = "sample_loop"
  /\ (iter >= sw_k \/ available = <<>>)
  /\ pc' = "sample_returned"
  /\ UNCHANGED <<sampleVars, statsVars, engineVars, normVars, appVars>>

SampleNext == SampleEnter \/ SampleStep \/ SampleReturn

SpecSample == SampleInit /\ [][SampleNext]_vars

Min(a, b) == IF a <= b THEN a ELSE b

\* C8: for a domain of distinct items, parallel non-negative weights (all-zero
\* included) and k >= 0, sample_without_replacement returns min(k, len(domain))
\* items, all from the domain and pairwise distinct (fewer than k only when the
\* pool is exhausted), and leaves the caller's domain and weights unchanged.
C8_SampleDistinctAndFrame ==
  /\ [](pc = "sample_returned" =>
          /\ Len(chosen) = Min(sw_k, Len(sw_domain))
          /\ \A i \in 1..Len(chosen) : ListHas(sw_domain, chosen[i])
          /\ Distinct(chosen)
          /\ (Len(chosen) < sw_k => available = <<>>))
  /\ [][sw_domain' = sw_domain /\ sw_weights' = sw_weights]_vars

\* a call that met the all-zero fallback and one that ran out of items
C8_Witness ==
  /\ pc = "sample_returned"
  /\ Len(sw_domain) = 3 /\ sw_k = 4 /\ Len(chosen) = 3
  /\ sw_weights = <<<<0, 1>>, <<2, 1>>, <<0, 1>>>>
  /\ chosen[1] = sw_domain[2]

----------------------------------------------------------------------------
(* probability_based_prediction, step by step *)

EngineInit ==
  /\ pc = "engine_call"
  /\ rows \in SeqsUpTo(Records, EngineRows)
  /\ si = 0
  /\ num_freq = ZeroStats.num_freq /\ star_freq = ZeroStats.star_freq /\ co = ZeroStats.co
  /\ EngineIdle /\ SampleIdle /\ NormIdle /\ AppIdle

\* build_stats, the two normalize_probs calls, picked = [], candidates = list(range(1, 51))
EngineStart ==
  /\ pc = "engine_call"
  /\ LET st == build_stats(rows)
     IN /\ num_freq' = st.num_freq
        /\ star_freq' = st.star_freq
        /\ co' = st.co
        /\ base_num_probs' = normalize_probs(st.num_freq, NumDomain, AlphaDefault).probs
        /\ base_star_probs' = normalize_probs(st.star_freq, StarDomain, AlphaDefault).probs
  /\ si' = Len(rows)
  /\ picked' = <<>>
  /\ candidates' = RangeList(NumDomain)
  /\ pc' = "first"
  /\ UNCHANGED <<rows, weights, stars, sampleVars, normVars, appVars>>

\* first = random.choices(candidates, weights=base_num_probs, k=1)[0]
\* (the weights are positive, so the ValueError of an all-zero total cannot occur)
FirstPick ==
  /\ pc = "first"
  /\ \E idx \in choices(base_num_probs) :
       /\ picked' = Append(picked, candidates[idx])
       /\ candidates' = RemoveValue(candidates, candidates[idx])
  /\ pc' = "loop"
  /\ UNCHANGED <<statsVars, base_num_probs, base_star_probs, weights, stars,
                 sampleVars, normVars, appVars>>

\* the loop test holds: compute the effective weight of every candidate
LoopWeights ==
  /\ pc = "loop"
  /\ Len(picked) < NumPicks /\ candidates # <<>>
  /\ weights' = [i \in 1..Len(candidates) |->
                   EffectiveWeight(co, base_num_probs, candidates[i], picked)]
  /\ pc' = "pick"
  /\ UNCHANGED <<statsVars, base_num_probs, base_star_probs, picked, candidates, stars,
                 sampleVars, normVars, appVars>>

\* draw next_pick, append it, remove it from the candidates
LoopChoose ==
  /\ pc = "pick"
  /\ \E idx \in NextPickIndexes(candidates, weights) :
       /\ picked' = Append(picked, candidates[idx])
       /\ candidates' = RemoveValue(candidates, candidates[idx])
  /\ pc' = "loop"
  /\ UNCHANGED <<statsVars, base_num_probs, base_star_probs, weights, stars,
                 sampleVars, normVars, appVars>>

\* the loop test fails: picked = sorted(picked), then the call
\* sample_without_replacement(star_domain, base_star_probs[:], 2)
LoopExit ==
  /\ pc = "loop"
  /\ ~(Len(picked) < NumPicks /\ candidates # <<>>)
  /\ picked' = sorted(picked)
  /\ sw_domain' = RangeList(StarDomain)
  /\ sw_weights' = base_star_probs
  /\ sw_k' = StarPicks
  /\ pc' = "sample_call"
  /\ UNCHANGED <<statsVars, base_num_probs, base_star_probs, candidates, weights, stars,
                 available, current_weights, chosen, iter, normVars, appVars>>

\* stars = sorted(stars); return picked, stars
EngineReturn ==
  /\ pc = "sample_returned"
  /\ stars' = sorted(chosen)
  /\ pc' = "engine_returned"
  /\ UNCHANGED <<statsVars, base_num_probs, base_star_probs, picked, candidates, weights,
                 sampleVars, normVars, appVars>>

EngineNext ==
  \/ EngineStart \/ FirstPick \/ LoopWeights \/ LoopChoose \/ LoopExit
  \/ SampleEnter \/ SampleStep \/ SampleReturn
  \/ EngineReturn

SpecEngine == EngineInit /\ [][EngineNext]_vars

StrictlyAscending(l) == \A i \in 1..(Len(l) - 1) : l[i] < l[i + 1]

\* C1: for every record collection (the empty one and malformed rows included) and
\* every outcome of the random choices the engine returns 5 pairwise distinct
\* numbers of the number domain in strictly ascending order and 2 pairwise
\* distinct stars of the star domain in strictly ascending order.
C1_ResultShape ==
  pc = "engine_returned" =>
    /\ Len(picked) = 5 /\ WithinRange(picked, NumDomain)
    /\ Distinct(picked) /\ StrictlyAscending(picked)
    /\ Len(stars) = 2 /\ WithinRange(stars, StarDomain)
    /\ Distinct(stars) /\ StrictlyAscending(stars)

\* a result for a collection with a malformed row, drawn in a non-ascending order
C1_Witness ==
  /\ pc = "engine_returned"
  /\ \E i \in 1..Len(rows) : ~KeyOk(rows[i].Actual)
  /\ picked[1] > 1
  /\ chosen[1] > chosen[2]

RECURSIVE SetSum(_, _, _)
SetSum(cooc, c, ps) ==
  IF ps = {} THEN 0
  ELSE LET p == CHOOSE q \in ps : TRUE
       IN cooc[c][p] + SetSum(cooc, c, ps \ {p})

PickedSet == {picked[j] : j \in 1..Len(picked)}

\* C9: in every number-selection step after the first pick the effective weight of
\* each remaining candidate c is base_weight(c) + 0.05 * (sum of co(c, p) over the
\* numbers p already picked); it is never below the base weight, and strictly above
\* it when c co-occurred with an already picked number; a picked number is never a
\* candidate again.
C9_EffectiveWeight ==
  /\ pc = "pick" =>
       /\ Len(weights) = Len(candidates)
       /\ \A i \in 1..Len(candidates) :
            LET c == candidates[i]
                base == base_num_probs[c]
                total == SetSum(co, c, PickedSet)
            IN /\ REq(weights[i], <<20 * base[1] + total * base[2], 20 * base[2]>>)
               /\ ~RLess(weights[i], base)
               /\ ((\E p \in PickedSet : co[c][p] >= 1) => RLess(base, weights[i]))
  /\ pc \in {"loop", "pick"} =>
       /\ \A i \in 1..Len(candidates) : candidates[i] \notin PickedSet
       /\ Len(candidates) + Len(picked) = NumDomain

\* a later step where a candidate co-occurred with the first but not the last pick
C9_Witness ==
  /\ pc = "pick"
  /\ Len(picked) >= 2
  /\ \E i \in 1..Len(candidates) :
       /\ co[candidates[i]][picked[1]] >= 1
       /\ co[candidates[i]][picked[Len(picked)]] = 0
       /\ RLess(base_num_probs[candidates[i]], weights[i])

----------------------------------------------------------------------------
(* The web application: the store and the /upload and /predict handlers *)

HNotes == <<"N", "o", "t", "e", "s">>
HDateUpper == <<"BOM", "D", "A", "T", "E">>
HWinning == <<" ", "w", "i", "n", "n", "i", "n", "g">>
HPredictiomPadded == <<"p", "r", "e", "d", "i", "c", "t", "i", "o", "m", " ">>

File(ls) == [exists |-> TRUE, lines |-> ls]

\* the files a client uploads
Files ==
  { File(<<<<HDate, HActual, HPrediction>>, <<D1, KA, <<>>>>, <<D2, KB, KA>>>>),
    \* an extra column, and a line that holds nothing but a note
    File(<<<<HDate, HActual, HPrediction, HNotes>>,
           <<D1, KA, <<>>, <<"x">>>>, <<<<>>, <<>>, <<>>, <<"x">>>>>>),
    \* the prediction column first
    File(<<<<HPrediction, HDate, HActual>>, <<KB, D1, KA>>>>),
    \* header spellings, padded cells, a short line, an empty line
    File(<<<<HDateUpper, HWinning, HPredictiomPadded>>,
           <<<<" ", "d", "1", " ">>, KSpaces, KC>>, <<D2>>, <<>>, <<<<" ">>, <<>>>>>>),
    \* an empty file
    File(<<>>),
    \* malformed keys
    File(<<<<HDate, HActual, HPrediction>>, <<D1, KDup, KRange>>, <<D2, KJunk, KShort>>>>) }

\* datetime.utcnow().strftime("%Y-%m-%d")
Today == <<"d", "9">>

Init ==
  /\ pc = "idle"
  /\ store = [exists |-> FALSE, lines |-> <<>>]
  /\ shown = <<>> /\ preds = <<>> /\ status = 0
  /\ StatsIdle /\ EngineIdle /\ SampleIdle /\ NormIdle

\* POST /upload with a file whose name ends in .csv: file.save(CSV_PATH)
Upload ==
  /\ \E file \in Files :
       /\ store' = file
       /\ shown' = read_rows(file)
  /\ preds' = <<>>
  /\ status' = 302
  /\ UNCHANGED <<pc, statsVars, engineVars, sampleVars, normVars>>

\* POST /upload without a file, or with another file name
UploadRejected ==
  /\ status' = 400
  /\ UNCHANGED <<pc, store, shown, preds, statsVars, engineVars, sampleVars, normVars>>

\* POST /predict
Predict ==
  /\ Len(preds) < MaxPredicts
  /\ LET rs == read_rows(store)
     IN \E res \in probability_based_prediction(rs) :
          LET key == format_key(res[1], res[2])
          IN /\ store' = write_rows(Append(rs, Row(Today, <<>>, key)))
             /\ preds' = Append(preds, res)
  /\ status' = 200
  /\ UNCHANGED <<pc, shown, statsVars, engineVars, sampleVars, normVars>>

Next == Upload \/ UploadRejected \/ Predict

Spec == Init /\ [][Next]_vars

\* C10: after k /predict calls on a stored history of n rows the store holds n + k
\* rows: the first n keep their Date, Actual and Prediction and their order, each
\* appended row has an empty Actual and a Prediction that parse_key decodes to the
\* numbers and stars returned; the co-occurrence matrix of the store is unchanged
\* and the totals of num_freq and star_freq grow by 5 and 2 per call.
C10_PredictAppends ==
  LET now == read_rows(store)
      n == Len(shown)
      k == Len(preds)
      before == build_stats(shown)
      after == build_stats(now)
  IN /\ Len(now) = n + k
     /\ \A i \in 1..n : now[i] = shown[i]
     /\ \A j \in 1..k :
          /\ now[n + j].Actual = <<>>
          /\ parse_key(now[n + j].Prediction) = [nums |-> preds[j][1], stars |-> preds[j][2]]
     /\ after.co = before.co
     /\ SumSeq(after.num_freq) = SumSeq(before.num_freq) + 5 * k
     /\ SumSeq(after.star_freq) = SumSeq(before.star_freq) + 2 * k

====
